---- MODULE Spec2Model ----
(***************************************************************************)
(* A model of the cedar bucket logger: the buffering Sender (sender.Send,  *)
(* Flush, Close, timedFlush, flush), the logger's Write path (Validate,    *)
(* encode, getEncoding, newKey, Put) and the blob store it writes to.      *)
(*                                                                         *)
(* Every method of the sender takes s.mu for its whole body, so each       *)
(* method is one atomic action; the periodic goroutine is split at the     *)
(* points where it does not hold the mutex (before creating its timer, in  *)
(* the select, and between receiving a tick and acquiring the mutex).      *)
(***************************************************************************)
EXTENDS Integers, Sequences, FiniteSets, TLC

\* ------------------------------------------------------------------ bounds
\* Accepted Sends per behaviour.
MaxSends == 2
\* The wall clock starts at StartTime and is advanced up to MaxTime; the
\* range is chosen so that the decimal rendering changes width inside it.
StartTime == 9
MaxTime == 10

\* ---------------------------------------------------------------- strings
\* Strings are sequences of byte values, compared as Go compares strings.
Slash == 47
Dot == 46
DigitZero == 48

RECURSIVE StrLess(_, _)
StrLess(a, b) ==
    IF b = <<>> THEN FALSE
    ELSE IF a = <<>> THEN TRUE
    ELSE IF Head(a) # Head(b) THEN Head(a) < Head(b)
    ELSE StrLess(Tail(a), Tail(b))

\* fmt.Sprintf("%d", n) for n >= 0
RECURSIVE Sprintf_d(_)
Sprintf_d(n) ==
    IF n < 10 THEN <<DigitZero + n>>
    ELSE Sprintf_d(n \div 10) \o <<DigitZero + (n % 10)>>

\* --------------------------------------------------------------- encodings
TEXT == "plain_text"
JSON == "json"

\* encode.globalRegistry
Registry == {TEXT, JSON}

\* Encoding.Extension(): "txt" and "json" as bytes
Extension(name) ==
    IF name = JSON THEN <<106, 115, 111, 110>> ELSE <<116, 120, 116>>

\* bucketLogger.getEncoding
getEncoding(encoding) ==
    LET name == IF encoding = "" THEN TEXT ELSE encoding
    IN  IF name \in Registry
        THEN [err |-> "nil", name |-> name]
        ELSE [err |-> "unrecognized encoding", name |-> name]

\* A LogLine built by Send: id is the identity of the message (its payload),
\* size is len(m.String()), ok says whether m.Raw() is a value json.Marshal
\* accepts.
LogLine(id, size, ok) == [t |-> "rec", id |-> id, size |-> size, ok |-> ok]

\* A byte of punctuation of an encoded chunk.
Tok(t) == [t |-> t, id |-> 0, size |-> 0, ok |-> TRUE]

RECURSIVE JoinComma(_)
JoinComma(lines) ==
    IF lines = <<>> THEN <<>>
    ELSE IF Len(lines) = 1 THEN lines
    ELSE <<Head(lines), Tok(",")>> \o JoinComma(Tail(lines))

\* jsonEncoding.Marshal of a []LogLine: "null" for a nil slice, else the
\* array of its elements; an error when an element cannot be marshaled.
jsonMarshal(lines, isNil) ==
    IF \E i \in 1..Len(lines) : ~lines[i].ok
    THEN [err |-> "marshal", out |-> <<>>]
    ELSE IF isNil THEN [err |-> "nil", out |-> <<Tok("null")>>]
    ELSE [err |-> "nil", out |-> <<Tok("[")>> \o JoinComma(lines) \o <<Tok("]")>>]

\* textEncoding.Marshal: a gob stream (a header, then the elements).
textMarshal(lines, isNil) ==
    [err |-> "nil", out |-> <<Tok("gob")>> \o lines]

Marshal(name, lines, isNil) ==
    IF name = JSON THEN jsonMarshal(lines, isNil) ELSE textMarshal(lines, isNil)

\* jsonEncoding.Unmarshal into a []LogLine: the elements of the array.
Unmarshal(bytes) == SelectSeq(bytes, LAMBDA b : b.t = "rec")

\* ------------------------------------------------------------- the logger
\* bucketLogger.newKey at clock reading t
newKey(prefix, ext, t) ==
    LET key  == Sprintf_d(t)
        key1 == IF prefix # <<>> THEN prefix \o <<Slash>> \o key ELSE key
    IN  IF ext # <<>> THEN key1 \o <<Dot>> \o ext ELSE key1

\* A Validate that rejects nothing.
ValidateNothing(key, dataIsNil) == "nil"

\* options.Write.Validate: dataIsNil is o.Data == nil, which is false for
\* an interface value holding a slice, nil or not.
Validate(key, dataIsNil) ==
    IF key = <<>> \/ dataIsNil THEN "invalid" ELSE "nil"

\* bucketLogger.encode
encode(lines, isNil, prefix, encoding, t) ==
    IF prefix = <<>> THEN [err |-> "must provide a key prefix", key |-> <<>>, out |-> <<>>]
    ELSE LET e == getEncoding(encoding)
         IN  IF e.err # "nil" THEN [err |-> e.err, key |-> <<>>, out |-> <<>>]
             ELSE LET m == Marshal(e.name, lines, isNil)
                  IN  IF m.err # "nil" THEN [err |-> m.err, key |-> <<>>, out |-> <<>>]
                      ELSE [err |-> "nil", key |-> newKey(prefix, Extension(e.name), t),
                            out |-> m.out]

\* pail.Bucket.Put: the object is stored under the key, replacing any
\* object already there; a Put that fails stores nothing.
Put(bucket, key, data, putOk) ==
    IF putOk
    THEN [k \in DOMAIN bucket \cup {key} |-> IF k = key THEN data ELSE bucket[k]]
    ELSE bucket

\* bucketLogger.Write: the error, the bucket afterwards, the number of Puts
\* issued and the key written.
Write(bucket, key, dataIsNil, lines, isNil, encoding, t, putOk) ==
    IF Validate(key, dataIsNil) # "nil"
    THEN [err |-> "invalid", bucket |-> bucket, puts |-> 0, key |-> <<>>]
    ELSE LET e == encode(lines, isNil, key, encoding, t)
         IN  IF e.err # "nil"
             THEN [err |-> e.err, bucket |-> bucket, puts |-> 0, key |-> <<>>]
             ELSE [err |-> IF putOk THEN "nil" ELSE "uploading data",
                   bucket |-> Put(bucket, e.key, e.out, putOk),
                   puts |-> 1, key |-> e.key]

\* ------------------------------------------------------------------ state
VARIABLES
    opts,         \* s.opts: Key, MaxBufferSize, FlushInterval
    buffer,       \* s.buffer
    bufferIsNil,  \* s.buffer == nil (no append and no flush yet)
    bufferSize,   \* s.bufferSize
    lastFlush,    \* s.lastFlush
    closed,       \* s.closed
    ctxDone,      \* s.ctx is cancelled
    timer,        \* the timedFlush goroutine and its time.Timer
    logsBucket,   \* the objects of the logs bucket, by key
    now,          \* the wall clock
    nextId,       \* number of messages accepted so far
    pending,      \* the buffer as it was at the latest failed flush, until persisted
    closeFlushes, \* number of flushes Close has attempted
    last          \* what the latest step did

vars == <<opts, buffer, bufferIsNil, bufferSize, lastFlush, closed, ctxDone,
          timer, logsBucket, now, nextId, pending, closeFlushes, last>>

\* time.Time{}: s.lastFlush before the first flush
ZeroTime == -1

\* inputs: the options NewSender is given and the sizes of the messages
KeyPrefixes == {<<>>, <<107>>}
MaxBufferSizes == {0, 2}
FlushIntervals == {0, 1}
\* <<len(m.String()), whether json.Marshal accepts m.Raw()>>
Messages == {<<0, TRUE>>, <<2, TRUE>>, <<1, FALSE>>}

\* What the latest step did: the operation, whether the sender was closed
\* when it began, (for Send) whether the message cleared the level filter,
\* its size and whether it was appended, whether a flush ran and how it
\* ended, the Puts issued, the value returned, what went to opts.Local, the
\* key written, and whether records of a failed flush were waiting.
NoOp == [op |-> "NewSender", preClosed |-> FALSE, loggable |-> FALSE,
         size |-> 0, accepted |-> FALSE, flush |-> "none", puts |-> 0,
         ret |-> "nil", sink |-> "none", key |-> <<>>, retry |-> FALSE]

Op(name) == [NoOp EXCEPT !.op = name, !.preClosed = closed,
                         !.retry = (pending # <<>>)]

\* NewSender: s.opts is the caller's options as given.
Init ==
    /\ opts \in [Key : KeyPrefixes, MaxBufferSize : MaxBufferSizes,
                 FlushInterval : FlushIntervals]
    /\ buffer = <<>>
    /\ bufferIsNil = TRUE
    /\ bufferSize = 0
    /\ lastFlush = ZeroTime
    /\ closed = FALSE
    /\ ctxDone = FALSE
    /\ timer = [pc |-> IF opts.FlushInterval > 0 THEN "start" ELSE "off",
                armed |-> FALSE, deadline |-> 0, C |-> FALSE]
    /\ logsBucket = << >>
    /\ now = StartTime
    /\ nextId = 0
    /\ pending = <<>>
    /\ closeFlushes = 0
    /\ last = NoOp

\* ------------------------------------------------------------- the sender
\* A flush that drops the buffer whether or not the write succeeded.
flushClearsOnError(buf, isNil, size, putOk) ==
    LET w == Write(logsBucket, opts.Key, FALSE, buf, isNil, JSON, now, putOk)
    IN  [err |-> w.err, buffer |-> <<>>, bufferIsNil |-> FALSE,
         bufferSize |-> 0, lastFlush |-> now,
         bucket |-> w.bucket, puts |-> w.puts, key |-> w.key]

\* A flush that, when the write succeeds, drops the buffer and keeps the
\* byte-size counter.
flushKeepsSize(buf, isNil, size, putOk) ==
    LET w == Write(logsBucket, opts.Key, FALSE, buf, isNil, JSON, now, putOk)
    IN  IF w.err # "nil"
        THEN [err |-> w.err, buffer |-> buf, bufferIsNil |-> isNil,
              bufferSize |-> size, lastFlush |-> lastFlush,
              bucket |-> w.bucket, puts |-> w.puts, key |-> w.key]
        ELSE [err |-> "nil", buffer |-> <<>>, bufferIsNil |-> FALSE,
              bufferSize |-> size, lastFlush |-> now,
              bucket |-> w.bucket, puts |-> w.puts, key |-> w.key]

\* A flush that writes the buffer without its last record and, when the
\* write succeeds, drops the buffer whole.
flushLeavesOutLast(buf, isNil, size, putOk) ==
    LET part == IF buf = <<>> THEN buf ELSE SubSeq(buf, 1, Len(buf) - 1)
        w    == Write(logsBucket, opts.Key, FALSE, part, isNil, JSON, now, putOk)
    IN  IF w.err # "nil"
        THEN [err |-> w.err, buffer |-> buf, bufferIsNil |-> isNil,
              bufferSize |-> size, lastFlush |-> lastFlush,
              bucket |-> w.bucket, puts |-> w.puts, key |-> w.key]
        ELSE [err |-> "nil", buffer |-> <<>>, bufferIsNil |-> FALSE,
              bufferSize |-> 0, lastFlush |-> now,
              bucket |-> w.bucket, puts |-> w.puts, key |-> w.key]

\* sender.flush on the buffer buf: the error and every field it assigns.
\* The data handed to Write is the []LogLine itself, never a nil interface.
flush(buf, isNil, size, putOk) ==
    LET w == Write(logsBucket, opts.Key, FALSE, buf, isNil, JSON, now, putOk)
    IN  IF w.err # "nil"
        THEN [err |-> w.err, buffer |-> buf, bufferIsNil |-> isNil,
              bufferSize |-> size, lastFlush |-> lastFlush,
              bucket |-> w.bucket, puts |-> w.puts, key |-> w.key]
        ELSE [err |-> "nil", buffer |-> <<>>, bufferIsNil |-> FALSE,
              bufferSize |-> 0, lastFlush |-> now,
              bucket |-> w.bucket, puts |-> w.puts, key |-> w.key]

\* The sender's fields and the bucket after a flush of buf that returned f.
Flushed(f, buf) ==
    /\ buffer' = f.buffer
    /\ bufferIsNil' = f.bufferIsNil
    /\ bufferSize' = f.bufferSize
    /\ lastFlush' = f.lastFlush
    /\ logsBucket' = f.bucket
    /\ pending' = IF f.err = "nil" THEN <<>> ELSE buf

FlushStatus(f) == IF f.err = "nil" THEN "ok" ELSE "fail"

\* What the flush sends to opts.Local and what its caller returns.
Reported(f) == IF f.err # "nil" THEN "flush" ELSE "none"
Returned(f) == IF f.err # "nil" THEN "err" ELSE "nil"

\* A Send that never looks at s.closed.
SendIgnoresClosed == FALSE

\* Send, line 71: if s.closed
SendClosedCheck == closed

\* A threshold test that misses the exact hit.
ShouldFlushStrict(size, max) == size > max

\* Send, line 83: the threshold test
ShouldFlush(size, max) == size >= max

\* sender.Send
Send ==
    \E loggable \in BOOLEAN, m \in Messages, putOk \in BOOLEAN :
        IF ~loggable
        THEN /\ last' = Op("Send")
             /\ UNCHANGED <<opts, buffer, bufferIsNil, bufferSize, lastFlush, closed,
                            ctxDone, timer, logsBucket, now, nextId, pending,
                            closeFlushes>>
        ELSE IF SendClosedCheck
        THEN /\ last' = [Op("Send") EXCEPT !.loggable = TRUE, !.sink = "closed"]
             /\ UNCHANGED <<opts, buffer, bufferIsNil, bufferSize, lastFlush, closed,
                            ctxDone, timer, logsBucket, now, nextId, pending,
                            closeFlushes>>
        ELSE /\ nextId < MaxSends
             /\ nextId' = nextId + 1
             /\ LET buf == Append(buffer, LogLine(nextId + 1, m[1], m[2]))
                    sz  == bufferSize + m[1]
                    op  == [Op("Send") EXCEPT !.loggable = TRUE, !.size = m[1],
                                              !.accepted = TRUE]
                IN  IF ShouldFlush(sz, opts.MaxBufferSize)
                    THEN LET f == flush(buf, FALSE, sz, putOk)
                         IN  /\ Flushed(f, buf)
                             /\ last' = [op EXCEPT !.flush = FlushStatus(f),
                                                   !.puts = f.puts, !.key = f.key,
                                                   !.sink = Reported(f)]
                    ELSE /\ buffer' = buf
                         /\ bufferIsNil' = FALSE
                         /\ bufferSize' = sz
                         /\ last' = op
                         /\ UNCHANGED <<lastFlush, logsBucket, pending>>
             /\ UNCHANGED <<opts, closed, ctxDone, timer, now, closeFlushes>>

\* A Flush that never looks at s.closed.
FlushIgnoresClosed == FALSE

\* Flush, line 96: if s.closed
FlushClosedCheck == closed

\* sender.Flush
Flush ==
    \E putOk \in BOOLEAN :
        IF FlushClosedCheck
        THEN /\ last' = Op("Flush")
             /\ UNCHANGED <<opts, buffer, bufferIsNil, bufferSize, lastFlush, closed,
                            ctxDone, timer, logsBucket, now, nextId, pending,
                            closeFlushes>>
        ELSE LET f == flush(buffer, bufferIsNil, bufferSize, putOk)
             IN  /\ Flushed(f, buffer)
                 /\ last' = [Op("Flush") EXCEPT !.flush = FlushStatus(f),
                                                !.puts = f.puts, !.key = f.key,
                                                !.ret = Returned(f)]
                 /\ UNCHANGED <<opts, closed, ctxDone, timer, now, nextId,
                                closeFlushes>>

\* A Close that never looks at s.closed.
CloseIgnoresClosed == FALSE

\* Close, line 114: if s.closed
CloseClosedCheck == closed

\* A Close that marks the sender closed only once its flush has succeeded.
CloseMarksAfterFlush(err) == err = "nil"

\* Close, line 117: s.closed = true, whatever the flush that follows returns
CloseMarks(err) == TRUE

\* Close counts its flushes up to 2, one more than it may attempt.
CountCloseFlush == IF closeFlushes < 2 THEN closeFlushes + 1 ELSE closeFlushes

\* sender.Close; the deferred cancel runs on every return, before the unlock.
Close ==
    \E putOk \in BOOLEAN :
        /\ ctxDone' = TRUE
        /\ IF CloseClosedCheck
           THEN /\ last' = Op("Close")
                /\ UNCHANGED <<opts, buffer, bufferIsNil, bufferSize, lastFlush,
                               closed, timer, logsBucket, now, nextId, pending,
                               closeFlushes>>
           ELSE /\ IF Len(buffer) > 0
                   THEN LET f == flush(buffer, bufferIsNil, bufferSize, putOk)
                        IN  /\ Flushed(f, buffer)
                            /\ closed' = CloseMarks(f.err)
                            /\ closeFlushes' = CountCloseFlush
                            /\ last' = [Op("Close") EXCEPT !.flush = FlushStatus(f),
                                           !.puts = f.puts, !.key = f.key,
                                           !.sink = Reported(f), !.ret = Returned(f)]
                   ELSE /\ closed' = CloseMarks("nil")
                        /\ last' = Op("Close")
                        /\ UNCHANGED <<buffer, bufferIsNil, bufferSize, lastFlush,
                                       logsBucket, pending, closeFlushes>>
                /\ UNCHANGED <<opts, timer, now, nextId>>

\* A test of the interval that every reading passes.
SinceAlways(t, d) == TRUE

\* time.Since(t) >= d
SinceAtLeast(t, d) == t = ZeroTime \/ now - t >= d

\* timedFlush, lines 130-132: the goroutine creates its timer.
timedFlushStart ==
    /\ timer.pc = "start"
    /\ timer' = [pc |-> "select", armed |-> TRUE,
                 deadline |-> now + opts.FlushInterval, C |-> FALSE]
    /\ last' = Op("timer")
    /\ UNCHANGED <<opts, buffer, bufferIsNil, bufferSize, lastFlush, closed, ctxDone,
                   logsBucket, now, nextId, pending, closeFlushes>>

\* A select without the ctx.Done() case.
timedFlushNoDoneCase ==
    /\ FALSE
    /\ UNCHANGED <<opts, buffer, bufferIsNil, bufferSize, lastFlush, closed, ctxDone,
                   timer, logsBucket, now, nextId, pending, closeFlushes, last>>

\* timedFlush, lines 137-138 (and the deferred timer.Stop)
timedFlushDone ==
    /\ timer.pc = "select"
    /\ ctxDone
    /\ timer' = [timer EXCEPT !.pc = "done", !.armed = FALSE]
    /\ last' = Op("timer")
    /\ UNCHANGED <<opts, buffer, bufferIsNil, bufferSize, lastFlush, closed, ctxDone,
                   logsBucket, now, nextId, pending, closeFlushes>>

\* timedFlush, line 139: the select receives from timer.C; when the context
\* is done as well, select takes either case.
timedFlushRecv ==
    /\ timer.pc = "select"
    /\ timer.C
    /\ timer' = [timer EXCEPT !.pc = "tick", !.C = FALSE]
    /\ last' = Op("timer")
    /\ UNCHANGED <<opts, buffer, bufferIsNil, bufferSize, lastFlush, closed, ctxDone,
                   logsBucket, now, nextId, pending, closeFlushes>>

\* timedFlush, lines 140-147: the tick, under the mutex
timedFlushTick ==
    \E putOk \in BOOLEAN :
        /\ timer.pc = "tick"
        /\ timer' = [pc |-> "select", armed |-> TRUE,
                     deadline |-> now + opts.FlushInterval, C |-> FALSE]
        /\ IF Len(buffer) > 0 /\ SinceAtLeast(lastFlush, opts.FlushInterval)
           THEN LET f == flush(buffer, bufferIsNil, bufferSize, putOk)
                IN  /\ Flushed(f, buffer)
                    /\ last' = [Op("timedFlush") EXCEPT !.flush = FlushStatus(f),
                                   !.puts = f.puts, !.key = f.key,
                                   !.sink = Reported(f)]
           ELSE /\ last' = Op("timedFlush")
                /\ UNCHANGED <<buffer, bufferIsNil, bufferSize, lastFlush, logsBucket,
                               pending>>
        /\ UNCHANGED <<opts, closed, ctxDone, now, nextId, closeFlushes>>

\* ------------------------------------------------------------ environment
\* The runtime delivers the timer's tick once its deadline has passed.
TimerFire ==
    /\ timer.armed
    /\ now >= timer.deadline
    /\ timer' = [timer EXCEPT !.armed = FALSE, !.C = TRUE]
    /\ last' = Op("runtime")
    /\ UNCHANGED <<opts, buffer, bufferIsNil, bufferSize, lastFlush, closed, ctxDone,
                   logsBucket, now, nextId, pending, closeFlushes>>

\* The wall clock advances; two readings in a row may be equal.
AdvanceClock ==
    /\ now < MaxTime
    /\ now' = now + 1
    /\ last' = Op("clock")
    /\ UNCHANGED <<opts, buffer, bufferIsNil, bufferSize, lastFlush, closed, ctxDone,
                   timer, logsBucket, nextId, pending, closeFlushes>>

\* ------------------------------------------- the rest of the logger's state
VARIABLES
    metaBucket,   \* the objects of the metadata bucket, by key
    api,          \* the latest call of the logger's write API and its result
    nk,           \* two calls of newKey and the clock readings they saw
    rd,           \* a bucketReader
    ff            \* a call of FollowFile

rest == <<metaBucket, api, nk, rd, ff>>

allvars == <<vars, rest>>

\* No call of the write API, of newKey, no reader and no FollowFile yet.
ApiIdle ==
    [op |-> "none", key |-> <<>>, dataIsNil |-> FALSE, encoding |-> "",
     err |-> "nil", puts |-> 0, calls |-> 0]
NkIdle == [pc |-> "idle"]
RdIdle ==
    [pc |-> "none", meta |-> FALSE, reverse |-> FALSE, keys |-> <<>>, keyIdx |-> 0,
     reader |-> 0, streams |-> <<>>, plen |-> 0, p |-> <<>>,
     delivered |-> <<>>, failed |-> {}, faults |-> FALSE, pages |-> 0,
     last |-> [op |-> "none", n |-> 0, data |-> <<>>, err |-> "nil"]]
FfIdle ==
    [pc |-> "none", key |-> <<>>, encoding |-> "", max |-> 0, buffer |-> <<>>,
     hasErrors |-> FALSE, exit |-> "open", ctxDone |-> FALSE, lines |-> 0,
     iter |-> 0, taken |-> "none", tested |-> 0, fwd |-> "none", ret |-> "nil"]

RestIdle ==
    /\ metaBucket = << >>
    /\ api = ApiIdle
    /\ nk = NkIdle
    /\ rd = RdIdle
    /\ ff = FfIdle

Next ==
    \/ Send /\ UNCHANGED rest
    \/ Flush /\ UNCHANGED rest
    \/ Close /\ UNCHANGED rest
    \/ timedFlushStart /\ UNCHANGED rest
    \/ timedFlushDone /\ UNCHANGED rest
    \/ timedFlushRecv /\ UNCHANGED rest
    \/ timedFlushTick /\ UNCHANGED rest
    \/ TimerFire /\ UNCHANGED rest
    \/ AdvanceClock /\ UNCHANGED rest

\* A new sender, and nothing else of the logger in use.
SpecInit == Init /\ RestIdle

Spec == SpecInit /\ [][Next]_allvars

\* The goroutine of timedFlush is scheduled: it starts, it runs a tick it
\* has received to its end, and its select, which picks at random among the
\* cases that are ready, takes the ctx.Done() case if that case is ready
\* again and again.
SpecFair ==
    /\ SpecInit
    /\ [][Next]_allvars
    /\ WF_allvars(timedFlushStart /\ UNCHANGED rest)
    /\ WF_allvars(timedFlushTick /\ UNCHANGED rest)
    /\ SF_allvars(timedFlushDone /\ UNCHANGED rest)

\* ---------------------------------------------------------- reading back
\* bucketReader.getAndSortKeys, lines 286-290: sort.Sort over the key strings
RECURSIVE SortKeys(_, _)
SortKeys(keys, reverse) ==
    IF keys = {} THEN <<>>
    ELSE LET first == CHOOSE k \in keys :
                          \A j \in keys \ {k} :
                              IF reverse THEN StrLess(j, k) ELSE StrLess(k, j)
         IN  <<first>> \o SortKeys(keys \ {first}, reverse)

\* The record lists of the chunks of a bucket, concatenated in key order.
RECURSIVE ConcatChunks(_, _)
ConcatChunks(bucket, keys) ==
    IF keys = <<>> THEN <<>>
    ELSE Unmarshal(bucket[Head(keys)]) \o ConcatChunks(bucket, Tail(keys))

StoredRecords == ConcatChunks(logsBucket, SortKeys(DOMAIN logsBucket, FALSE))

Ids(lines) == [i \in 1..Len(lines) |-> lines[i].id]

IsPrefix(a, b) == Len(a) <= Len(b) /\ SubSeq(b, 1, Len(a)) = a

\* The sum of len(m.String()) over the records of a buffer.
RECURSIVE SumSizes(_)
SumSizes(lines) ==
    IF lines = <<>> THEN 0 ELSE Head(lines).size + SumSizes(Tail(lines))

\* How many times the record with this id is found in a list of records.
Copies(lines, id) == Cardinality({i \in DOMAIN lines : lines[i].id = id})

\* ------------------------------------------------------------ key scheme
\* Clock readings handed to newKey run from 0 to MaxStamp.
MaxStamp == 12

\* The extensions a key may carry: none, "json", "txt".
Extensions == {<<>>, Extension(JSON), Extension(TEXT)}

\* A sender that is never used: the state NewSender leaves, for one choice
\* of options.
SenderIdle ==
    /\ opts = [Key |-> <<107>>, MaxBufferSize |-> 0, FlushInterval |-> 0]
    /\ buffer = <<>>
    /\ bufferIsNil = TRUE
    /\ bufferSize = 0
    /\ lastFlush = ZeroTime
    /\ closed = FALSE
    /\ ctxDone = FALSE
    /\ timer = [pc |-> "off", armed |-> FALSE, deadline |-> 0, C |-> FALSE]
    /\ nextId = 0
    /\ pending = <<>>
    /\ closeFlushes = 0
    /\ last = NoOp

senderVars == <<opts, buffer, bufferIsNil, bufferSize, lastFlush, closed, ctxDone,
                timer, nextId, pending, closeFlushes, last>>

\* Two calls of newKey with one prefix and one extension, the first at
\* clock reading t1 and the second at a later reading t2.
KeyInit ==
    /\ SenderIdle
    /\ logsBucket = << >>
    /\ now = StartTime
    /\ metaBucket = << >>
    /\ api = ApiIdle
    /\ rd = RdIdle
    /\ ff = FfIdle
    /\ nk \in [pc : {"start"}, prefix : KeyPrefixes, ext : Extensions,
                t1 : 0..MaxStamp, t2 : 0..MaxStamp, key1 : {<<>>}, key2 : {<<>>}]
    /\ nk.t1 < nk.t2

newKeyFirst ==
    /\ nk.pc = "start"
    /\ nk' = [nk EXCEPT !.pc = "first", !.key1 = newKey(nk.prefix, nk.ext, nk.t1)]
    /\ UNCHANGED <<vars, metaBucket, api, rd, ff>>

newKeySecond ==
    /\ nk.pc = "first"
    /\ nk' = [nk EXCEPT !.pc = "second", !.key2 = newKey(nk.prefix, nk.ext, nk.t2)]
    /\ UNCHANGED <<vars, metaBucket, api, rd, ff>>

KeyNext ==
    \/ newKeyFirst
    \/ newKeySecond

SpecKey == KeyInit /\ [][KeyNext]_allvars

\* ---------------------------------------------------------- the write API
\* The write API is called at most MaxCalls times.
MaxCalls == 2

\* bucketLogger.WriteBytes: the error, the bucket afterwards, the number of
\* Puts issued and the key written. options.WriteBytes.Validate is the test
\* of options.Write.Validate, on a []byte.
WriteBytes(bucket, key, dataIsNil, data, encoding, t, putOk) ==
    IF Validate(key, dataIsNil) # "nil"
    THEN [err |-> "invalid", bucket |-> bucket, puts |-> 0, key |-> <<>>]
    ELSE LET e == getEncoding(encoding)
         IN  IF e.err # "nil"
             THEN [err |-> e.err, bucket |-> bucket, puts |-> 0, key |-> <<>>]
             ELSE LET k == newKey(key, Extension(e.name), t)
                  IN  [err |-> IF putOk THEN "nil" ELSE "uploading data",
                       bucket |-> Put(bucket, k, data, putOk),
                       puts |-> 1, key |-> k]

\* bucketLogger.AddMetadata: encode, then Put to the metadata bucket; the
\* options are not validated.
AddMetadata(bucket, key, lines, isNil, encoding, t, putOk) ==
    LET e == encode(lines, isNil, key, encoding, t)
    IN  IF e.err # "nil"
        THEN [err |-> e.err, bucket |-> bucket, puts |-> 0, key |-> <<>>]
        ELSE [err |-> IF putOk THEN "nil" ELSE "uploading metadata",
              bucket |-> Put(bucket, e.key, e.out, putOk),
              puts |-> 1, key |-> e.key]

\* The names of encodings a caller passes: none, a registered one, and one
\* that is not registered.
Encodings == {"", JSON, "yaml"}

\* The values a caller passes as Data to Write and AddMetadata: no value
\* (a nil interface), a nil list, a list of one line, and a list
\* json.Marshal rejects.
DataValues ==
    {[none |-> TRUE,  isNil |-> TRUE,  lines |-> <<>>],
     [none |-> FALSE, isNil |-> TRUE,  lines |-> <<>>],
     [none |-> FALSE, isNil |-> FALSE, lines |-> <<LogLine(1, 1, TRUE)>>],
     [none |-> FALSE, isNil |-> FALSE, lines |-> <<LogLine(1, 1, FALSE)>>]}

\* The values a caller passes as Data to WriteBytes: nil and one byte.
ByteValues ==
    {[isNil |-> TRUE,  bytes |-> <<>>],
     [isNil |-> FALSE, bytes |-> <<Tok("b")>>]}

\* The call of the write API that has just returned.
ApiCall(op, key, dataIsNil, encoding, w) ==
    [op |-> op, key |-> key, dataIsNil |-> dataIsNil, encoding |-> encoding,
     err |-> w.err, puts |-> w.puts, calls |-> api.calls + 1]

CallWrite ==
    /\ api.calls < MaxCalls
    /\ \E key \in KeyPrefixes, d \in DataValues, encoding \in Encodings, putOk \in BOOLEAN :
          LET w == Write(logsBucket, key, d.none, d.lines, d.isNil, encoding, now, putOk)
          IN  /\ logsBucket' = w.bucket
              /\ api' = ApiCall("Write", key, d.none, encoding, w)
    /\ UNCHANGED <<senderVars, now, metaBucket, nk, rd, ff>>

CallWriteBytes ==
    /\ api.calls < MaxCalls
    /\ \E key \in KeyPrefixes, d \in ByteValues, encoding \in Encodings, putOk \in BOOLEAN :
          LET w == WriteBytes(logsBucket, key, d.isNil, d.bytes, encoding, now, putOk)
          IN  /\ logsBucket' = w.bucket
              /\ api' = ApiCall("WriteBytes", key, d.isNil, encoding, w)
    /\ UNCHANGED <<senderVars, now, metaBucket, nk, rd, ff>>

CallAddMetadata ==
    /\ api.calls < MaxCalls
    /\ \E key \in KeyPrefixes, d \in DataValues, encoding \in Encodings, putOk \in BOOLEAN :
          LET w == AddMetadata(metaBucket, key, d.lines, d.isNil, encoding, now, putOk)
          IN  /\ metaBucket' = w.bucket
              /\ api' = ApiCall("AddMetadata", key, d.none, encoding, w)
    /\ UNCHANGED <<senderVars, now, logsBucket, nk, rd, ff>>

\* time.Now() moves on.
ClockTick ==
    /\ now < MaxTime
    /\ now' = now + 1
    /\ UNCHANGED <<senderVars, logsBucket, rest>>

LoggerInit ==
    /\ SenderIdle
    /\ logsBucket = << >>
    /\ now = StartTime
    /\ RestIdle

LoggerNext ==
    \/ CallWrite
    \/ CallWriteBytes
    \/ CallAddMetadata
    \/ ClockTick

SpecLogger == LoggerInit /\ [][LoggerNext]_allvars

\* ------------------------------------------------------------- FollowFile
\* The followed file yields at most MaxLines lines of at most MaxLineLen
\* bytes each.
MaxLines == 3
MaxLineLen == 2

defaultMaxBufferSize == 10000000

\* line.Bytes() of the n-th line of the file: size bytes, each told apart
\* from every other byte of every line.
LineBytes(n, size) == [j \in 1..size |-> [t |-> "byte", id |-> n, size |-> j, ok |-> TRUE]]

\* FollowFile up to its loop: the options are validated, MaxBufferSize gets
\* its default, the follower is created.
FollowFile ==
    /\ ff.pc = "none"
    /\ \E key \in KeyPrefixes, fileGiven \in BOOLEAN, exitGiven \in BOOLEAN,
          encoding \in Encodings, max \in MaxBufferSizes, followerOk \in BOOLEAN :
          ff' = IF key = <<>> \/ ~fileGiven \/ ~exitGiven
                THEN [ff EXCEPT !.pc = "returned", !.ret = "invalid"]
                ELSE IF ~followerOk
                THEN [ff EXCEPT !.pc = "returned", !.ret = "creating new file follower"]
                ELSE [ff EXCEPT !.pc = "loop", !.key = key, !.encoding = encoding,
                                !.max = IF max <= 0 THEN defaultMaxBufferSize ELSE max]
    /\ UNCHANGED <<vars, metaBucket, api, nk, rd>>

\* The select takes a line: it is appended to the buffer, and a buffer that
\* has reached MaxBufferSize is written with WriteBytes and, if the catcher
\* holds no error, replaced by an empty one. tested is the len(buffer)
\* the threshold test saw, fwd whether WriteBytes was called and how it
\* ended.
FollowLine ==
    /\ ff.pc = "loop"
    /\ ff.lines < MaxLines
    /\ \E size \in 0..MaxLineLen, putOk \in BOOLEAN :
          LET buf == ff.buffer \o LineBytes(ff.lines + 1, size)
              f1  == [ff EXCEPT !.lines = @ + 1, !.iter = 1 - @, !.taken = "line",
                               !.tested = Len(buf)]
          IN  IF Len(buf) >= ff.max
              THEN LET w   == WriteBytes(logsBucket, ff.key, FALSE, buf, ff.encoding,
                                         now, putOk)
                       has == ff.hasErrors \/ w.err # "nil"
                   IN  /\ logsBucket' = w.bucket
                       /\ ff' = [f1 EXCEPT !.hasErrors = has,
                                           !.buffer = IF has THEN buf ELSE <<>>,
                                           !.fwd = IF w.err = "nil" THEN "ok"
                                                   ELSE "fail"]
              ELSE /\ logsBucket' = logsBucket
                   /\ ff' = [f1 EXCEPT !.buffer = buf, !.fwd = "none"]
    /\ UNCHANGED <<senderVars, now, metaBucket, api, nk, rd>>

\* The select takes the exit case: break leaves the select, and the loop
\* goes round again. A value sent on the channel is used up, a closed
\* channel stays ready.
FollowExit ==
    /\ ff.pc = "loop"
    /\ ff.exit # "open"
    /\ ff' = [ff EXCEPT !.exit = IF @ = "sent" THEN "open" ELSE @,
                        !.iter = 1 - @, !.taken = "exit"]
    /\ UNCHANGED <<vars, metaBucket, api, nk, rd>>

\* The select takes the ctx.Done() case: ctx.Err() goes to the catcher, break
\* leaves the select, and the loop goes round again.
FollowDone ==
    /\ ff.pc = "loop"
    /\ ff.ctxDone
    /\ ff' = [ff EXCEPT !.hasErrors = TRUE, !.iter = 1 - @, !.taken = "ctx"]
    /\ UNCHANGED <<vars, metaBucket, api, nk, rd>>

\* The owner of opts.Exit sends on it or closes it.
ExitFire ==
    /\ ff.pc = "loop"
    /\ ff.exit = "open"
    /\ \E e \in {"sent", "closed"} : ff' = [ff EXCEPT !.exit = e]
    /\ UNCHANGED <<vars, metaBucket, api, nk, rd>>

\* The context FollowFile was called with is cancelled.
FollowCancel ==
    /\ ff.pc = "loop"
    /\ ~ff.ctxDone
    /\ ff' = [ff EXCEPT !.ctxDone = TRUE]
    /\ UNCHANGED <<vars, metaBucket, api, nk, rd>>

FollowInit ==
    /\ SenderIdle
    /\ logsBucket = << >>
    /\ now = StartTime
    /\ RestIdle

FollowNext ==
    \/ FollowFile
    \/ FollowLine
    \/ FollowExit
    \/ FollowDone
    \/ ExitFire
    \/ FollowCancel
    \/ ClockTick

\* The goroutine that runs FollowFile is scheduled: a case of the select
\* that stays ready is taken.
SpecFollow ==
    /\ FollowInit
    /\ [][FollowNext]_allvars
    /\ WF_allvars(FollowLine)
    /\ WF_allvars(FollowExit)
    /\ WF_allvars(FollowDone)

\* ------------------------------------------------------------- the reader
\* A reader is read over at most MaxChunks chunks of at most MaxChunkLen
\* bytes each, into caller buffers of at most MaxChunkLen bytes.
MaxChunks == 2
MaxChunkLen == 2

Min(a, b) == IF a <= b THEN a ELSE b

\* The prefix the chunks were written under and the reader is opened with.
ReadKey == <<107>>

\* The clock readings at which the chunks were written: the last MaxChunks
\* readings of the clock.
ChunkTimes == (MaxTime - MaxChunks + 1)..MaxTime

\* The key WriteBytes gives a chunk written at clock reading t.
ChunkKey(t) == newKey(ReadKey, Extension(JSON), t)

\* The payload of the chunk written at t: n bytes, each told apart from
\* every other byte of every chunk.
ChunkData(t, n) == [j \in 1..n |-> <<t, j>>]

\* The clock reading a payload byte was written at.
ByteTime(b) == b[1]

\* The bucket a reader reads: options.Read.Metadata picks the metadata bucket.
RdBucket(r) == IF r.meta THEN metaBucket ELSE logsBucket

\* bucket.List(ctx, prefix): the names of the objects under the prefix.
ListKeys(bucket, prefix) ==
    {k \in DOMAIN bucket : IsPrefix(prefix, k)}

\* The bytes of the chunks of a bucket, concatenated in the order of keys.
RECURSIVE ConcatBytes(_, _)
ConcatBytes(bucket, keys) ==
    IF keys = <<>> THEN <<>>
    ELSE bucket[Head(keys)] \o ConcatBytes(bucket, Tail(keys))

\* pages counts the calls of a reader on which nothing but ReadPage was
\* called and nothing failed; NoPages marks every other reader.
NoPages == -1

\* A storage operation failed or another method than ReadPage was called.
Mixed(r) == [r EXCEPT !.pages = NoPages]

\* A storage operation of the reader (List, Get, a stream's Read or Close)
\* failed.
Faulted(r) == [Mixed(r) EXCEPT !.faults = TRUE]

\* A call of the reader returns: what it hands the caller is delivered.
Return(r, op, data, err) ==
    [r EXCEPT !.pc = "ready", !.plen = 0, !.p = <<>>,
              !.delivered = @ \o data,
              !.last = [op |-> op, n |-> Len(data),
                        data |-> IF op = "ReadPage" THEN data ELSE <<>>,
                        err |-> err]]

\* Close of a stream: a stream closed before is closed once more.
StreamClose(state) == IF state = "open" THEN "closed" ELSE "reclosed"

\* bucketReader.Close: the open stream's Close is invoked, and r.reader is
\* left as it was. Close of a stream that was closed before may fail.
readerClose(r, closeOk) ==
    IF r.reader = 0 THEN [r |-> r, err |-> "nil"]
    ELSE LET again == r.streams[r.reader].state # "open"
             r1    == [r EXCEPT !.streams[r.reader].state = StreamClose(@)]
         IN  IF again /\ ~closeOk
             THEN [r |-> Faulted(r1), err |-> "close"]
             ELSE [r |-> r1, err |-> "nil"]

\* A getNextChunk that, when Get fails, goes on to the chunk after.
getNextChunkSkipsFailed(r, closeOk, getOk) ==
    LET c == readerClose(r, closeOk)
    IN  IF c.err # "nil" THEN [r |-> c.r, err |-> "closing previous ReadCloser"]
        ELSE LET r1 == [c.r EXCEPT !.reader = 0]
                 i  == r1.keyIdx + 1
             IN  IF r1.keyIdx = Len(r1.keys) THEN [r |-> r1, err |-> "nil"]
                 ELSE IF ~getOk
                 THEN [r |-> IF i < Len(r1.keys)
                             THEN [Faulted(r1) EXCEPT !.failed = @ \cup {i},
                                                    !.reader = i + 1,
                                                    !.streams[i + 1].state = "open",
                                                    !.keyIdx = i + 1]
                             ELSE [Faulted(r1) EXCEPT !.failed = @ \cup {i},
                                                    !.keyIdx = i],
                       err |-> "getting next log chunk"]
                 ELSE [r |-> [r1 EXCEPT !.reader = i, !.streams[i].state = "open",
                                        !.keyIdx = i],
                       err |-> "nil"]

\* A getNextChunk that opens a chunk without moving on to the next key.
getNextChunkRepeats(r, closeOk, getOk) ==
    LET c == readerClose(r, closeOk)
    IN  IF c.err # "nil" THEN [r |-> c.r, err |-> "closing previous ReadCloser"]
        ELSE LET r1 == [c.r EXCEPT !.reader = 0]
                 i  == Min(r1.keyIdx + 1, Len(r1.keys))
             IN  IF Len(r1.keys) = 0 THEN [r |-> r1, err |-> "nil"]
                 ELSE IF ~getOk
                 THEN [r |-> [Faulted(r1) EXCEPT !.failed = @ \cup {i}],
                       err |-> "getting next log chunk"]
                 ELSE [r |-> [r1 EXCEPT !.reader = i,
                                        !.streams[i] = [state |-> "open", pos |-> 0],
                                        !.keyIdx = i],
                       err |-> "nil"]

\* bucketReader.getNextChunk: close the open stream, then Get the chunk at
\* keys[keyIdx] (the Go index) and move keyIdx on, unless the keys are used
\* up. A failed Get leaves keyIdx where it was and r.reader nil.
getNextChunk(r, closeOk, getOk) ==
    LET c == readerClose(r, closeOk)
    IN  IF c.err # "nil" THEN [r |-> c.r, err |-> "closing previous ReadCloser"]
        ELSE LET r1 == [c.r EXCEPT !.reader = 0]
                 i  == r1.keyIdx + 1
             IN  IF r1.keyIdx = Len(r1.keys) THEN [r |-> r1, err |-> "nil"]
                 ELSE IF ~getOk
                 THEN [r |-> [Faulted(r1) EXCEPT !.failed = @ \cup {i}],
                       err |-> "getting next log chunk"]
                 ELSE [r |-> [r1 EXCEPT !.reader = i, !.streams[i].state = "open",
                                        !.keyIdx = i],
                       err |-> "nil"]

\* The content of the stream r.reader was opened on.
StreamContent(r) == RdBucket(r)[r.keys[r.reader]]

\* What one Read of the open stream into space bytes may return: some of
\* the bytes left without an error, all of them with io.EOF, or an error.
\* A stream that was closed may refuse the Read or serve it.
StreamReads(r, space) ==
    LET s     == r.streams[r.reader]
        avail == Len(StreamContent(r)) - s.pos
    IN  {[n |-> n, err |-> "nil"] : n \in 1..Min(avail, space)}
        \cup (IF avail <= space THEN {[n |-> avail, err |-> "EOF"]} ELSE {})
        \cup {[n |-> 0, err |-> "read"]}

\* The stream after n more bytes were read from it.
StreamAdvance(r, n) == [r EXCEPT !.streams[r.reader].pos = @ + n]

\* The next n bytes of the open stream.
StreamBytes(r, n) ==
    SubSeq(StreamContent(r), r.streams[r.reader].pos + 1, r.streams[r.reader].pos + n)

\* bucketLogger.newReadCloser: a reader over the keys under opts.Key, sorted.
NewReadCloser ==
    /\ rd.pc = "none"
    /\ \E key \in KeyPrefixes, meta \in BOOLEAN, reverse \in BOOLEAN, listOk \in BOOLEAN :
          LET r    == [rd EXCEPT !.meta = meta, !.reverse = reverse]
              keys == SortKeys(ListKeys(RdBucket(r), key), reverse)
              ret(err) == [op |-> "NewReadCloser", n |-> 0, data |-> <<>>, err |-> err]
          IN  rd' = IF key = <<>>
                    THEN [Mixed(r) EXCEPT !.pc = "failed",
                                          !.last = ret("must specify a key")]
                    ELSE IF ~listOk
                    THEN [Faulted(r) EXCEPT !.pc = "failed",
                                            !.last = ret("listing log chunk keys")]
                    ELSE [r EXCEPT !.pc = "ready", !.keys = keys,
                                   !.streams = [i \in 1..Len(keys) |->
                                                   [state |-> "none", pos |-> 0]],
                                   !.last = ret("nil")]
    /\ UNCHANGED <<vars, metaBucket, api, nk, ff>>

\* bucketReader.Read, from its entry to the first test of the loop.
Read ==
    /\ rd.pc = "ready"
    /\ \E plen \in 0..MaxChunkLen, getOk \in BOOLEAN :
          LET g == IF rd.keyIdx = 0 THEN getNextChunk(Mixed(rd), TRUE, getOk)
                   ELSE [r |-> Mixed(rd), err |-> "nil"]
          IN  rd' = IF g.err # "nil" THEN Return(g.r, "Read", <<>>, g.err)
                    ELSE IF g.r.reader = 0 THEN Return(g.r, "Read", <<>>, "EOF")
                    ELSE IF plen = 0 THEN Return(g.r, "Read", <<>>, "nil")
                    ELSE [g.r EXCEPT !.pc = "loop", !.plen = plen, !.p = <<>>]
    /\ UNCHANGED <<vars, metaBucket, api, nk, ff>>

\* One turn of the loop of bucketReader.Read: read the open stream into the
\* rest of p, go to the next chunk on io.EOF, leave on an error, return when
\* p is full. r.reader is nil here once the last chunk reached io.EOF with
\* room left in p, and the call on it panics.
ReadLoop ==
    /\ rd.pc = "loop"
    /\ IF rd.reader = 0
       THEN rd' = [rd EXCEPT !.pc = "panicked", !.plen = 0, !.p = <<>>,
                             !.last = [op |-> "Read", n |-> 0, data |-> <<>>,
                                       err |-> "panic"]]
       ELSE \E o \in StreamReads(rd, rd.plen - Len(rd.p)),
               closeOk \in BOOLEAN, getOk \in BOOLEAN :
               LET p1 == rd.p \o StreamBytes(rd, o.n)
                   r0 == IF o.err = "read" THEN Faulted(rd) ELSE rd
                   r1 == [StreamAdvance(r0, o.n) EXCEPT !.p = p1]
                   g  == IF o.err = "EOF" THEN getNextChunk(r1, closeOk, getOk)
                         ELSE [r |-> r1, err |-> o.err]
               IN  rd' = IF g.err # "nil" THEN Return(g.r, "Read", p1, g.err)
                         ELSE IF Len(p1) < rd.plen THEN g.r
                         ELSE Return(g.r, "Read", p1, "nil")
    /\ UNCHANGED <<vars, metaBucket, api, nk, ff>>

\* bucketReader.ReadPage: io.ReadAll of the open stream; getNextChunk is
\* called only while keyIdx is 0.
ReadPage ==
    /\ rd.pc = "ready"
    /\ rd.pages <= MaxChunks
    /\ \E getOk \in BOOLEAN, readOk \in BOOLEAN :
          LET r0 == [rd EXCEPT !.pages = IF @ = NoPages THEN @ ELSE @ + 1]
              g  == IF r0.keyIdx = 0 THEN getNextChunk(r0, TRUE, getOk)
                    ELSE [r |-> r0, err |-> "nil"]
              r  == g.r
          IN  rd' = IF g.err # "nil" THEN Return(r, "ReadPage", <<>>, g.err)
                    ELSE IF r.reader = 0 THEN Return(r, "ReadPage", <<>>, "EOF")
                    ELSE IF ~readOk
                    THEN Return(Faulted(r), "ReadPage", <<>>, "read")
                    ELSE LET n == Len(StreamContent(r)) - r.streams[r.reader].pos
                         IN  Return(StreamAdvance(r, n), "ReadPage",
                                    StreamBytes(r, n), "nil")
    /\ UNCHANGED <<vars, metaBucket, api, nk, ff>>

\* bucketReader.Close, called by the reader's user.
ReaderClose ==
    /\ rd.pc = "ready"
    /\ \E closeOk \in BOOLEAN :
          LET c == readerClose(Mixed(rd), closeOk)
          IN  rd' = Return(c.r, "Close", <<>>, c.err)
    /\ UNCHANGED <<vars, metaBucket, api, nk, ff>>

\* The length of the chunk written at t, for a shift s of the lengths.
ChunkLen(t, s) == (t + s) % (MaxChunkLen + 1)

\* The logs bucket holds chunks written at some of ChunkTimes under ReadKey.
ReaderInit ==
    /\ SenderIdle
    /\ now = StartTime
    /\ metaBucket = << >>
    /\ api = ApiIdle
    /\ nk = NkIdle
    /\ ff = FfIdle
    /\ rd = RdIdle
    /\ \E T \in SUBSET ChunkTimes : \E s \in 0..MaxChunkLen :
          logsBucket = [k \in {ChunkKey(t) : t \in T} |->
                           LET t == CHOOSE u \in T : ChunkKey(u) = k
                           IN  ChunkData(t, ChunkLen(t, s))]

ReaderNext ==
    \/ NewReadCloser
    \/ Read
    \/ ReadLoop
    \/ ReadPage
    \/ ReaderClose

SpecReader == ReaderInit /\ [][ReaderNext]_allvars

\* The chunks a reader lists, in ascending order of their keys.
Ascending(r) == SortKeys(ListKeys(RdBucket(r), ReadKey), FALSE)

\* The place in r.keys of the chunk a payload byte belongs to.
ChunkIndex(r, b) ==
    CHOOSE i \in 1..Len(r.keys) : r.keys[i] = ChunkKey(ByteTime(b))

\* The keys of the chunks written at the readings T, latest written first.
RECURSIVE NewestFirst(_)
NewestFirst(T) ==
    IF T = {} THEN <<>>
    ELSE LET m == CHOOSE t \in T : \A u \in T : u <= t
         IN  <<ChunkKey(m)>> \o NewestFirst(T \ {m})

\* The readings at which the chunks a reader lists were written.
WrittenAt(r) == {t \in ChunkTimes : ChunkKey(t) \in DOMAIN RdBucket(r)}

\* ----------------------------------------------------------------- claims

\* C1: the records of the stored chunks, concatenated in ascending key
\* order and followed by the records still buffered, are the accepted
\* records 1..nextId in the order they were appended.
C1_ChunksReproduceAppendOrder ==
    Ids(StoredRecords \o buffer) = [i \in 1..nextId |-> i]

C3_CloseIdempotent ==
    /\ [][(last'.op = "Close" /\ closed) =>
            /\ last'.puts = 0
            /\ last'.flush = "none"
            /\ last'.ret = "nil"
            /\ buffer' = buffer
            /\ logsBucket' = logsBucket]_vars
    /\ [](closeFlushes <= 1)

C3_Witness ==
    /\ last.op = "Close" /\ last.preClosed /\ closeFlushes = 1
    /\ buffer # <<>>

\* C4: a flush that fails leaves the buffer and the counter as they were
\* when it began (for Send: with the new record appended), leaves the
\* bucket alone, and its error is returned by Flush and Close and sent to
\* opts.Local by Send, Close and the timer; the records stay buffered, and
\* the next flush that succeeds writes a chunk that holds them all.
C4_FailedFlushKeepsBuffer ==
    /\ [][(last'.flush = "fail") =>
            /\ IF last'.op = "Send"
               THEN /\ Len(buffer') = Len(buffer) + 1
                    /\ SubSeq(buffer', 1, Len(buffer)) = buffer
                    /\ bufferSize' = bufferSize + last'.size
               ELSE /\ buffer' = buffer
                    /\ bufferSize' = bufferSize
            /\ logsBucket' = logsBucket
            /\ lastFlush' = lastFlush
            /\ pending' = buffer'
            /\ (last'.op \in {"Flush", "Close"} => last'.ret = "err")
            /\ (last'.op \in {"Send", "Close", "timedFlush"} => last'.sink = "flush")]_vars
    /\ [](IsPrefix(pending, buffer))
    /\ [][(last'.flush = "ok") =>
            /\ last'.key \in DOMAIN logsBucket'
            /\ IsPrefix(pending, Unmarshal(logsBucket'[last'.key]))
            /\ IsPrefix(buffer, Unmarshal(logsBucket'[last'.key]))]_vars

C4_Witness ==
    /\ last.flush = "ok" /\ last.retry /\ ~last.preClosed
    /\ last.op = "Flush"

\* C5: when the flush of the first Close fails, Close returns the error
\* and sends it to opts.Local, the sender is closed all the same, it never
\* reopens, and no later Send is accepted.
C5_CloseCompletesOnFlushFailure ==
    /\ [][(last'.op = "Close" /\ ~closed /\ last'.flush = "fail") =>
            /\ last'.ret = "err"
            /\ last'.sink = "flush"
            /\ closed']_vars
    /\ [][closed => closed']_vars
    /\ [][(last'.op = "Close") => closed']_vars
    /\ [][(closed /\ last'.op = "Send") => (~last'.accepted /\ buffer' = buffer)]_vars

C5_Witness ==
    /\ last.op = "Send" /\ last.preClosed /\ last.loggable /\ ~last.accepted
    /\ closeFlushes = 1 /\ pending # <<>>

\* C6: an accepted Send flushes (once, with at most one Put) exactly when
\* the counter plus the message size reaches s.opts.MaxBufferSize; if that
\* flush succeeds the buffer is empty and the counter 0 afterwards, and a
\* Send below the threshold only appends.
C6_ThresholdFlush ==
    [][(last'.op = "Send" /\ last'.accepted) =>
        /\ (last'.flush # "none") = (bufferSize + last'.size >= opts.MaxBufferSize)
        /\ last'.puts <= 1
        /\ Cardinality(DOMAIN logsBucket' \ DOMAIN logsBucket) <= 1
        /\ (last'.flush = "ok" =>
                /\ buffer' = <<>>
                /\ bufferSize' = 0
                /\ last'.puts = 1)
        /\ (last'.flush = "none" =>
                /\ last'.puts = 0
                /\ logsBucket' = logsBucket
                /\ Len(buffer') = Len(buffer) + 1
                /\ bufferSize' = bufferSize + last'.size
                /\ bufferSize' < opts.MaxBufferSize)]_vars

C6_Witness ==
    /\ last.op = "Send" /\ last.accepted /\ last.flush = "ok"
    /\ opts.MaxBufferSize > 0 /\ nextId = 2 /\ bufferSize = 0

\* C7: a Flush on an open sender with an empty buffer returns nil, issues
\* no Put and leaves the bucket as it was.
C7_FlushEmptyIsNoOp ==
    [][(last'.op = "Flush" /\ ~closed /\ buffer = <<>>) =>
        /\ last'.ret = "nil"
        /\ last'.puts = 0
        /\ logsBucket' = logsBucket]_vars

\* C8: a Flush on a closed sender returns nil, issues no Put and leaves the
\* buffer, the counter, the last-flush time and the bucket as they were.
C8_FlushClosedIsNoOp ==
    [][(last'.op = "Flush" /\ closed) =>
        /\ last'.ret = "nil"
        /\ last'.puts = 0
        /\ last'.flush = "none"
        /\ buffer' = buffer
        /\ bufferSize' = bufferSize
        /\ lastFlush' = lastFlush
        /\ logsBucket' = logsBucket]_vars

C8_Witness ==
    /\ last.op = "Flush" /\ last.preClosed /\ buffer # <<>>

\* C9: once Close has returned, the periodic task has stopped: no step
\* flushes, issues a Put or changes the bucket.
C9_NoFlushAfterClose ==
    [][closed =>
        /\ last'.flush = "none"
        /\ last'.puts = 0
        /\ logsBucket' = logsBucket]_vars

\* C10: a flush that succeeds writes a key the bucket did not hold, adds
\* exactly that key and leaves every other chunk as it was.
C10_FlushWritesFreshKey ==
    [][(last'.flush = "ok") =>
        /\ last'.key \notin DOMAIN logsBucket
        /\ DOMAIN logsBucket' = DOMAIN logsBucket \cup {last'.key}
        /\ \A k \in DOMAIN logsBucket : logsBucket'[k] = logsBucket[k]]_vars

\* C11: of two keys made with one prefix and one extension, the one made
\* at the earlier clock reading is the smaller string.
C11_KeysIncreaseWithTime ==
    nk.pc = "second" => StrLess(nk.key1, nk.key2)

\* C12: what a forward reader has delivered is at all times a leading part
\* of its chunks' bytes put together in ascending order of their keys.
C12_ForwardReadIsPrefix ==
    (rd.pc \in {"ready", "loop", "panicked"} /\ ~rd.reverse)
        => IsPrefix(rd.delivered, ConcatBytes(RdBucket(rd), Ascending(rd)))

\* A Read has returned bytes of the second chunk of two.
C12_Witness ==
    /\ rd.pc = "ready" /\ ~rd.reverse /\ Len(rd.keys) = MaxChunks
    /\ rd.last.op = "Read" /\ rd.last.n > 0
    /\ rd.keyIdx = MaxChunks
    /\ Len(rd.delivered) > Len(RdBucket(rd)[rd.keys[1]])
    /\ Len(RdBucket(rd)[rd.keys[1]]) > 0

\* C13: Read returns io.EOF only when every chunk of the key list has been
\* delivered in full.
C13_EndOfStreamOnlyWhenExhausted ==
    (rd.pc = "ready" /\ rd.last.op = "Read" /\ rd.last.err = "EOF")
        => rd.delivered = ConcatBytes(RdBucket(rd), rd.keys)

C15_ReverseReadsNewestFirst ==
    (rd.pc \in {"ready", "loop", "panicked"} /\ rd.reverse)
        => IsPrefix(rd.delivered, ConcatBytes(RdBucket(rd), NewestFirst(WrittenAt(rd))))

\* C16: the Close of a stream the reader opened is invoked at most once.
C16_StreamClosedAtMostOnce ==
    \A i \in DOMAIN rd.streams : rd.streams[i].state # "reclosed"

\* C19: with no storage error and no other call, the k-th ReadPage returns
\* the k-th chunk of the key list and the call after the last chunk returns
\* io.EOF.
C19_ReadPageReturnsKthChunk ==
    (rd.pc = "ready" /\ rd.last.op = "ReadPage" /\ rd.pages # NoPages)
        => IF rd.pages <= Len(rd.keys)
           THEN rd.last.err = "nil" /\ rd.last.data = RdBucket(rd)[rd.keys[rd.pages]]
           ELSE rd.last.err = "EOF"

\* A call the write API must refuse: Write or WriteBytes with an empty key
\* or nil data, an encode with an empty key prefix, a write that names an
\* encoding that is not registered.
C18_Invalid(a) ==
    \/ a.op \in {"Write", "WriteBytes"} /\ (a.key = <<>> \/ a.dataIsNil)
    \/ a.op \in {"Write", "AddMetadata"} /\ a.key = <<>>
    \/ a.op \in {"Write", "WriteBytes", "AddMetadata"}
          /\ a.encoding # "" /\ a.encoding \notin Registry

\* C18: a call the write API must refuse returns an error, issues no Put
\* and leaves both buckets as they were.
C18_InvalidWriteDoesNoIO ==
    [][ (api' # api /\ C18_Invalid(api'))
            => /\ api'.err # "nil"
               /\ api'.puts = 0
               /\ logsBucket' = logsBucket
               /\ metaBucket' = metaBucket ]_allvars

\* A WriteBytes naming an unregistered encoding was refused after an
\* earlier write had stored a chunk.
C18_Witness ==
    /\ api.op = "WriteBytes" /\ api.encoding = "yaml"
    /\ api.key # <<>> /\ ~api.dataIsNil
    /\ api.err # "nil"
    /\ DOMAIN logsBucket # {}

\* C17: once the exit signal has fired or the context is cancelled while
\* FollowFile is in its loop, FollowFile eventually returns.
C17_FollowFileTerminates ==
    (ff.pc = "loop" /\ (ff.exit # "open" \/ ff.ctxDone)) ~> (ff.pc = "returned")

\* C20: the buffer holds the records accepted last, in order and with none
\* missing; a flush that succeeds writes one chunk that holds the whole
\* buffer (with the record its Send has just accepted), which begins where
\* the previous successful flush ended, and leaves the buffer empty; and only
\* a flush that succeeds takes records out of the buffer.
C20_FlushTakesWholeBuffer ==
    /\ [](Ids(buffer) = [i \in 1..Len(buffer) |-> nextId - Len(buffer) + i])
    /\ [][(last'.flush = "ok") =>
            /\ last'.puts = 1
            /\ last'.key \in DOMAIN logsBucket'
            /\ LET chunk == Ids(Unmarshal(logsBucket'[last'.key]))
               IN  chunk = [i \in 1..(nextId' - (nextId - Len(buffer))) |->
                               nextId - Len(buffer) + i]
            /\ buffer' = <<>>]_vars
    /\ [][(last'.flush # "ok") =>
            /\ Len(buffer') = Len(buffer) + (nextId' - nextId)
            /\ SubSeq(buffer', 1, Len(buffer)) = buffer
            /\ logsBucket' = logsBucket]_vars

\* A second flush has succeeded and written the one record accepted since
\* the first.
C20_Witness ==
    /\ last.flush = "ok"
    /\ last.key \in DOMAIN logsBucket
    /\ Ids(Unmarshal(logsBucket[last.key])) = <<MaxSends>>
    /\ buffer = <<>>

\* C21: once Close has cancelled the sender's context, the goroutine of
\* timedFlush, if there is one, eventually returns.
C21_TimedFlushTerminates ==
    ctxDone ~> (timer.pc \in {"off", "done"})

\* The goroutine has returned with a tick still waiting in timer.C: the
\* tick and the cancellation were ready together and the select took
\* ctx.Done().
C21_Witness ==
    /\ ctxDone
    /\ timer.pc = "done"
    /\ timer.C

\* C22: a tick of timedFlush flushes exactly when the buffer holds a record
\* and either no flush has succeeded yet or at least FlushInterval has gone
\* by since the last one that did; a tick that does not flush issues no Put
\* and leaves the bucket and the buffer alone; a flush that fails on a tick
\* goes to opts.Local, and the goroutine re-arms its timer and goes back to
\* its select.
C22_TickFlushesWhenDue ==
    [][(last'.op = "timedFlush") =>
        /\ (last'.flush # "none") <=>
              /\ Len(buffer) > 0
              /\ (lastFlush = ZeroTime \/ now - lastFlush >= opts.FlushInterval)
        /\ (last'.flush = "none") =>
              /\ last'.puts = 0
              /\ logsBucket' = logsBucket
              /\ buffer' = buffer
              /\ last'.sink = "none"
        /\ (last'.flush = "fail") => last'.sink = "flush"
        /\ timer'.pc = "select" /\ timer'.armed]_vars

\* A tick found records in the buffer less than one interval after a flush
\* that succeeded, and wrote nothing.
C22_Witness ==
    /\ last.op = "timedFlush"
    /\ last.flush = "none"
    /\ Len(buffer) > 0
    /\ lastFlush = now

\* The ids of the lines that have a byte in data.
C28_LinesIn(data) == {data[i].id : i \in DOMAIN data}

\* C23: when a line arrives in FollowFile, the buffer with that line is
\* forwarded with WriteBytes exactly when it has reached MaxBufferSize, a
\* buffer that is not forwarded writes nothing, and a forward that succeeds
\* leaves the buffer empty, whatever became of the forwards before it.
C23_ForwardAtThresholdThenClear ==
    [][(ff'.lines # ff.lines) =>
        /\ (ff'.fwd # "none") <=> (ff'.tested >= ff.max)
        /\ (ff'.fwd = "none") => logsBucket' = logsBucket
        /\ (ff'.fwd = "ok") => ff'.buffer = <<>>]_allvars

\* C28: no line of the followed file has bytes in two chunks of the logs
\* bucket.
C28_NoLineInTwoChunks ==
    \A k1 \in DOMAIN logsBucket : \A k2 \in DOMAIN logsBucket :
        k1 # k2 => C28_LinesIn(logsBucket[k1]) \cap C28_LinesIn(logsBucket[k2]) = {}

\* C24: on a sender made with MaxBufferSize <= 0, a Send that is accepted
\* and leaves the byte-size counter below defaultMaxBufferSize flushes
\* nothing.
C24_DefaultThresholdUsed ==
    [][(/\ opts.MaxBufferSize <= 0
        /\ last'.op = "Send" /\ last'.accepted
        /\ bufferSize + last'.size < defaultMaxBufferSize)
            => (last'.flush = "none" /\ last'.puts = 0)]_vars

\* C25: while no storage operation has failed, no Read of a reader calls
\* Read on a nil chunk stream.
C25_NoNilStreamRead ==
    ~rd.faults => rd.pc # "panicked"

\* C26: when the Close that closes the sender has returned nil, every
\* record a Send has accepted is found exactly once in the chunks of the
\* logs bucket.
C26_SuccessfulCloseStoresAll ==
    (last.op = "Close" /\ ~last.preClosed /\ last.ret = "nil")
        => \A id \in 1..nextId : Copies(StoredRecords, id) = 1

\* C27: the byte-size counter is the sum of the sizes of the buffered
\* records, and it is never negative.
C27_SizeIsSumOfBuffer ==
    /\ bufferSize = SumSizes(buffer)
    /\ bufferSize >= 0

\* Two records of two bytes each wait in the buffer after a flush that
\* failed.
C27_Witness ==
    /\ Len(buffer) = MaxSends
    /\ bufferSize > opts.MaxBufferSize
    /\ bufferSize = SumSizes(buffer)
    /\ pending # <<>>
====
